---- MODULE Spec2Model ----
(***************************************************************************)
(* Model of the GroBot chat store (frontend/src/app/store/chatStore.ts)    *)
(* and of its transport (api/chat.ts, sendChatMessage).                    *)
(*                                                                         *)
(* The store is a Zustand container {messages, isLoading, error} with the  *)
(* operations addMessage, clearMessages and setError.  addMessage is an    *)
(* async function with one suspension point that matters to the store:     *)
(* the await of sendChatMessage.  Everything before it (the first set()    *)
(* and the construction of the request from get().messages) runs in one    *)
(* synchronous step; everything after it (the second set(), or the set()   *)
(* of the catch block) runs in one step when the exchange has an outcome.  *)
(* JavaScript is single threaded, so these steps interleave but never      *)
(* overlap.                                                                *)
(***************************************************************************)
EXTENDS Integers, Sequences, FiniteSets, TLC

(* ------------------------------ bounds -------------------------------- *)

\* Number of addMessage calls made in one behaviour.
MaxCalls == 2

(* --------------------------- values and texts ------------------------- *)

\* A text that is built from parts (a template string) is a sequence of
\* tokens; a text "contains" a token when the token is one of its parts.
Contains(text, tok) == \E i \in 1..Len(text) : text[i] = tok

\* string | null (the type of ChatState.error)
Null == [isNull |-> TRUE, text |-> <<>>]
Text(t) == [isNull |-> FALSE, text |-> t]

\* The JavaScript value undefined, as the content of a message.
Undefined == "<undefined>"

\* Contents a caller may submit; the store takes any string.
Contents == {"What are mangroves?", ""}

\* The same with a whitespace-only content.
AnyContents == Contents \cup {"  "}

\* Texts a user may have typed into the textarea of InputArea.
RawInputs == {"What are mangroves?", " What are mangroves?  ", "", "  "}

\* String.prototype.trim on the texts above.
Trim(text) ==
  CASE text = " What are mangroves?  " -> "What are mangroves?"
    [] text = "  " -> ""
    [] OTHER -> text

\* Arguments a caller may hand to setError.
ErrorArgs == {Null, Text(<<"Backend unavailable">>)}

SYSTEM_MESSAGE == [role |-> "system", content |-> "You are GroBot, an AI assistant specialized in providing information about mangrove ecosystems."]

(* ------------------------------ transport ----------------------------- *)

\* Raw response bodies the endpoint may send.
BodyValid == "{\"response\": \"Mangroves are coastal trees...\"}"
BodyNoField == "{\"detail\": \"oops\"}"
BodyJsonNull == "null"
BodyNotJson == "<html>Bad Gateway</html>"
Bodies == {BodyValid, BodyNoField, BodyJsonNull, BodyNotJson}

\* response.json(): the parsed value, or a SyntaxError.
JsonParse(body) ==
  CASE body = BodyValid -> [ok |-> TRUE, isNull |-> FALSE, fields |-> [response |-> "Mangroves are coastal trees..."]]
    [] body = BodyNoField -> [ok |-> TRUE, isNull |-> FALSE, fields |-> [detail |-> "oops"]]
    [] body = BodyJsonNull -> [ok |-> TRUE, isNull |-> TRUE, fields |-> [null |-> "null"]]
    [] OTHER -> [ok |-> FALSE, isNull |-> FALSE, fields |-> [none |-> "none"]]

\* What fetch() can do: settle with a Response (status, body) or reject.
\* thrown.isError tells whether the rejection value is an Error instance.
Statuses == {200, 404, 500}
NoThrown == [isError |-> FALSE, message |-> <<>>]
NoOutcome == [kind |-> "none", status |-> 0, body |-> "", thrown |-> NoThrown]
FetchRejections == {[isError |-> TRUE, message |-> <<"Failed to fetch">>], [isError |-> FALSE, message |-> <<>>]}
Outcomes ==
  {[kind |-> "response", status |-> s, body |-> b, thrown |-> NoThrown] : s \in {200}, b \in Bodies}
  \cup {[kind |-> "response", status |-> s, body |-> BodyNotJson, thrown |-> NoThrown] : s \in Statuses \ {200}}
  \cup {[kind |-> "reject", status |-> 0, body |-> BodyNotJson, thrown |-> t] : t \in FetchRejections}

\* Response.ok
ResponseOk(status) == status >= 200 /\ status <= 299

HttpErrorMessageNoStatus(status) == <<"HTTP error!">>

\* `HTTP error! status: ${response.status}`
HttpErrorMessage(status) == <<"HTTP error! status: ", ToString(status)>>

\* The request body: JSON.stringify({messages, temperature: 0.7, max_tokens: 500}).
ChatRequest(msgs) == [messages |-> msgs, temperature |-> "0.7", max_tokens |-> 500]

NoData == [isNull |-> TRUE, fields |-> [none |-> "none"]]

\* sendChatMessage, given what the exchange did: it returns the parsed body
\* unchecked (data as ChatResponse), or throws (rethrowing what it caught).
sendChatMessage(o) ==
  IF o.kind = "reject"
    THEN [threw |-> TRUE, thrown |-> o.thrown, data |-> NoData]
    ELSE IF ~ResponseOk(o.status)
      THEN [threw |-> TRUE, thrown |-> [isError |-> TRUE, message |-> HttpErrorMessage(o.status)], data |-> NoData]
      ELSE LET p == JsonParse(o.body) IN
        IF ~p.ok
          THEN [threw |-> TRUE, thrown |-> [isError |-> TRUE, message |-> <<"Unexpected token < in JSON">>], data |-> NoData]
          ELSE [threw |-> FALSE, thrown |-> NoThrown, data |-> [isNull |-> p.isNull, fields |-> p.fields]]

(* -------------------------------- store ------------------------------- *)

VARIABLES
  messages,   \* ChatState.messages
  isLoading,  \* ChatState.isLoading
  error,      \* ChatState.error
  calls,      \* the addMessage calls made so far, with the request each one sent
  promise,    \* promise[i]: state of the promise returned by the i-th addMessage call
  origin,     \* origin[k]: the addMessage call that appended messages[k]
  requests,   \* the requests handed to fetch so far, each with the call that sent it
  lastOp      \* the step that produced the current state: operation, call, exchange outcome

vars == <<messages, isLoading, error, calls, promise, origin, requests, lastOp>>

\* The part of a set() updater that builds the new message list.
UserMessage(content) == [role |-> "user", content |-> content]

\* response.response: a property read on the parsed body.
ResponseField(data) == IF "response" \in DOMAIN data.fields THEN data.fields.response ELSE Undefined

AssistantMessageAsUser(data) == [role |-> "user", content |-> ResponseField(data)]

AssistantMessage(data) == [role |-> "assistant", content |-> ResponseField(data)]

SetUserTurnTrims(st, content) ==
  [messages |-> Append(st.messages, UserMessage(Trim(content))), isLoading |-> TRUE, error |-> Null]

SetUserTurnKeepsError(st, content) ==
  [messages |-> Append(st.messages, UserMessage(content)), isLoading |-> TRUE, error |-> st.error]

\* set() of lines 73-77.
SetUserTurn(st, content) ==
  [messages |-> Append(st.messages, UserMessage(content)), isLoading |-> TRUE, error |-> Null]

RequestListNoPersona(msgs) == msgs

\* [SYSTEM_MESSAGE, ...get().messages]
RequestList(msgs) == <<SYSTEM_MESSAGE>> \o msgs

SetAssistantTurnSkipsCleared(st, msg) ==
  [messages |-> IF st.messages = <<>> THEN <<>> ELSE Append(st.messages, msg), isLoading |-> FALSE, error |-> st.error]

SetAssistantTurnNoAppend(st, msg) ==
  [messages |-> st.messages, isLoading |-> FALSE, error |-> st.error]

\* set() of lines 88-91.
SetAssistantTurn(st, msg) ==
  [messages |-> Append(st.messages, msg), isLoading |-> FALSE, error |-> st.error]

\* error instanceof Error ? error.message : 'An error occurred'
ErrorDescription(thrown) == IF thrown.isError THEN Text(thrown.message) ELSE Text(<<"An error occurred">>)

SetCaughtKeepsLoading(st, thrown) ==
  [messages |-> st.messages, isLoading |-> st.isLoading, error |-> ErrorDescription(thrown)]

SetCaughtDropsTurn(st, thrown) ==
  [messages |-> SubSeq(st.messages, 1, Len(st.messages) - 1), isLoading |-> FALSE, error |-> ErrorDescription(thrown)]

\* set() of lines 94-98.
SetCaught(st, thrown) ==
  [messages |-> st.messages, isLoading |-> FALSE, error |-> ErrorDescription(thrown)]

SetClearedKeepsError(st) == [messages |-> <<>>, isLoading |-> st.isLoading, error |-> st.error]

SetClearedResetsLoading(st) == [messages |-> <<>>, isLoading |-> FALSE, error |-> Null]

\* set({ messages: [], error: null })
SetCleared(st) == [messages |-> <<>>, isLoading |-> st.isLoading, error |-> Null]

SetErrorFieldResetsLoading(st, e) == [messages |-> st.messages, isLoading |-> FALSE, error |-> e]

SetErrorFieldIgnoresNull(st, e) ==
  [messages |-> st.messages, isLoading |-> st.isLoading, error |-> IF e = Null THEN st.error ELSE e]

\* set({ error })
SetErrorField(st, e) == [messages |-> st.messages, isLoading |-> st.isLoading, error |-> e]

State == [messages |-> messages, isLoading |-> isLoading, error |-> error]

\* Reading .response of null throws a TypeError inside the try block.
NullReadError == [isError |-> TRUE, message |-> <<"Cannot read properties of null (reading 'response')">>]

\* Lines 80-86, the rest of the try block after the await: what it throws,
\* or the assistant message it builds.
TryBlock(o) ==
  LET r == sendChatMessage(o) IN
    IF r.threw
      THEN [threw |-> TRUE, thrown |-> r.thrown, message |-> AssistantMessage(NoData)]
      ELSE IF r.data.isNull
        THEN [threw |-> TRUE, thrown |-> NullReadError, message |-> AssistantMessage(NoData)]
        ELSE [threw |-> FALSE, thrown |-> NoThrown, message |-> AssistantMessage(r.data)]

CatchBlockNeverSettles(st, thrown) ==
  [path |-> "failure", state |-> SetCaught(st, thrown), promise |-> "pending"]

CatchBlockRethrows(st, thrown) ==
  [path |-> "failure", state |-> SetCaught(st, thrown), promise |-> "rejected"]

\* Lines 92-99: the catch block writes the state and completes normally, so
\* the promise of the async function is fulfilled.
CatchBlock(st, thrown) ==
  [path |-> "failure", state |-> SetCaught(st, thrown), promise |-> "fulfilled"]

\* Lines 80-99 after the await: the path taken, the state written and the
\* settlement of the promise addMessage returned.
Resolution(st, o) ==
  LET t == TryBlock(o) IN
    IF t.threw
      THEN CatchBlock(st, t.thrown)
      ELSE [path |-> "success", state |-> SetAssistantTurn(st, t.message), promise |-> "fulfilled"]

RequestsAfterResolutionRetries(reqs, id, path) ==
  IF path = "failure" THEN Append(reqs, [call |-> id, body |-> reqs[id].body]) ELSE reqs

\* Lines 80-99 call sendChatMessage once, before the await, and part_000
\* lines 40-43 rethrow without calling fetch again: a resolution sends nothing.
RequestsAfterResolution(reqs, id, path) == reqs

Pending == {i \in 1..Len(calls) : promise[i] = "pending"}

Init ==
  /\ messages = <<>>
  /\ isLoading = FALSE
  /\ error = Null
  /\ calls = <<>>
  /\ promise = <<>>
  /\ origin = <<>>
  /\ requests = <<>>
  /\ lastOp = [op |-> "create", id |-> 0, outcome |-> NoOutcome]

\* addMessage up to its await: lines 70-80.
addMessage(content) ==
  /\ Len(calls) < MaxCalls
  /\ LET st == SetUserTurn(State, content)
         id == Len(calls) + 1
     IN /\ messages' = st.messages
        /\ isLoading' = st.isLoading
        /\ error' = st.error
        /\ calls' = Append(calls, [content |-> content, preLen |-> Len(messages), request |-> ChatRequest(RequestList(st.messages))])
        /\ promise' = Append(promise, "pending")
        /\ origin' = Append(origin, id)
        /\ requests' = Append(requests, [call |-> id, body |-> ChatRequest(RequestList(st.messages))])
        /\ lastOp' = [op |-> "addMessage", id |-> id, outcome |-> NoOutcome]

\* addMessage after its await: lines 80-99, for the call id whose exchange ended as o.
addMessageResolve(id, o) ==
  /\ id \in Pending
  /\ LET res == Resolution(State, o) IN
       /\ messages' = res.state.messages
       /\ isLoading' = res.state.isLoading
       /\ error' = res.state.error
       /\ promise' = [promise EXCEPT ![id] = res.promise]
       /\ origin' = IF res.path = "success" THEN Append(origin, id) ELSE origin
       /\ requests' = RequestsAfterResolution(requests, id, res.path)
       /\ lastOp' = [op |-> res.path, id |-> id, outcome |-> o]
  /\ UNCHANGED calls

clearMessages ==
  /\ LET st == SetCleared(State) IN
       /\ messages' = st.messages
       /\ isLoading' = st.isLoading
       /\ error' = st.error
  /\ origin' = <<>>
  /\ lastOp' = [op |-> "clearMessages", id |-> 0, outcome |-> NoOutcome]
  /\ UNCHANGED <<calls, promise, requests>>

setError(e) ==
  /\ LET st == SetErrorField(State, e) IN
       /\ messages' = st.messages
       /\ isLoading' = st.isLoading
       /\ error' = st.error
  /\ lastOp' = [op |-> "setError", id |-> 0, outcome |-> NoOutcome]
  /\ UNCHANGED <<calls, promise, origin, requests>>

Next ==
  \/ \E content \in Contents : addMessage(content)
  \/ \E id \in 1..MaxCalls, o \in Outcomes : addMessageResolve(id, o)
  \/ clearMessages
  \/ \E e \in ErrorArgs : setError(e)

Spec == Init /\ [][Next]_vars

\* The store driven with whitespace-only contents too.
NextAnyContent ==
  \/ \E content \in AnyContents : addMessage(content)
  \/ \E id \in 1..MaxCalls, o \in Outcomes : addMessageResolve(id, o)
  \/ clearMessages
  \/ \E e \in ErrorArgs : setError(e)

SpecAnyContent == Init /\ [][NextAnyContent]_vars

\* Every exchange ends: fetch settles or rejects, and the event loop then
\* runs the continuation of the addMessage call that awaits it.
\* One outcome for each way an exchange can end: a reply, a non-success
\* status, a rejected fetch.
EndOutcomes ==
  {o \in Outcomes : \/ o.kind = "response" /\ o.status = 200 /\ o.body = BodyValid
                    \/ o.kind = "response" /\ o.status = 500
                    \/ o.kind = "reject" /\ o.thrown.isError}

NextFair ==
  \/ \E content \in Contents : addMessage(content)
  \/ \E id \in 1..MaxCalls, o \in EndOutcomes : addMessageResolve(id, o)
  \/ clearMessages
  \/ \E e \in ErrorArgs : setError(e)

FairSpec ==
  /\ Init /\ [][NextFair]_vars
  /\ \A id \in 1..MaxCalls : WF_vars(\E o \in EndOutcomes : addMessageResolve(id, o))

handleSendIgnoresLoading(message) ==
  \/ /\ Trim(message) # ""
     /\ addMessage(Trim(message))
  \/ /\ ~(Trim(message) # "")
     /\ UNCHANGED vars

\* InputArea.handleSend with onSendMessage = addMessage (ChatInterface line 78)
\* and the isLoading prop holding the store's value.
handleSend(message) ==
  \/ /\ Trim(message) # "" /\ ~isLoading
     /\ addMessage(Trim(message))
  \/ /\ ~(Trim(message) # "" /\ ~isLoading)
     /\ UNCHANGED vars

\* The store driven through the input area only.
NextUI ==
  \/ \E message \in RawInputs : handleSend(message)
  \/ \E id \in 1..MaxCalls, o \in Outcomes : addMessageResolve(id, o)
  \/ clearMessages
  \/ \E e \in ErrorArgs : setError(e)

UISpec == Init /\ [][NextUI]_vars

\* Outcomes with which the try block of addMessage runs to its end.
SuccessOutcomes == {o \in Outcomes : ~TryBlock(o).threw}

\* The store used serially: no addMessage while isLoading, no clearMessages
\* while a request is in flight, and every exchange succeeds.
NextSerial ==
  \/ \E content \in Contents : ~isLoading /\ addMessage(content)
  \/ \E id \in 1..MaxCalls, o \in SuccessOutcomes : addMessageResolve(id, o)
  \/ Pending = {} /\ clearMessages
  \/ \E e \in ErrorArgs : setError(e)

SerialSpec == Init /\ [][NextSerial]_vars

TypeOK ==
  /\ isLoading \in BOOLEAN
  /\ Len(origin) = Len(messages)
  /\ Len(promise) = Len(calls)
  /\ \A k \in 1..Len(messages) : messages[k].role \in {"user", "assistant"}

(* ------------------------------- claims ------------------------------- *)

\* The last step was a resolution (either path) of an addMessage call.
Resolved == lastOp.op \in {"success", "failure"}

\* messages[k] is the user message of call id / the reply to call id.
IsUserTurnOf(k, id) == origin[k] = id /\ messages[k].role = "user"
IsReplyTo(k, id) == origin[k] = id /\ messages[k].role = "assistant"

\* C1: addMessage appends exactly one user message carrying the submitted
\* content; a successful resolution appends exactly one assistant message
\* and a failed one appends nothing; when the resolution directly follows
\* its own addMessage, messages has grown by 2 (user, assistant) on success
\* and by 1 (user) on failure relative to the length before the call.
C1_Step ==
  /\ lastOp'.op = "addMessage" =>
       messages' = Append(messages, [role |-> "user", content |-> calls'[lastOp'.id].content])
  /\ lastOp'.op = "success" =>
       /\ Len(messages') = Len(messages) + 1
       /\ SubSeq(messages', 1, Len(messages)) = messages
       /\ messages'[Len(messages')].role = "assistant"
  /\ lastOp'.op = "failure" => messages' = messages
  /\ (lastOp.op = "addMessage" /\ lastOp'.op \in {"success", "failure"} /\ lastOp'.id = lastOp.id) =>
       LET n == calls[lastOp.id].preLen
           grown == IF lastOp'.op = "success" THEN 2 ELSE 1
       IN /\ Len(messages') = n + grown
          /\ messages'[n + 1] = [role |-> "user", content |-> calls[lastOp.id].content]
          /\ lastOp'.op = "success" => messages'[n + 2].role = "assistant"

C1_ExchangeAppends == [][C1_Step]_vars

C1_Witness ==
  /\ lastOp.op = "success"
  /\ calls[lastOp.id].preLen = 2
  /\ Len(messages) = 4
  /\ IsUserTurnOf(3, lastOp.id)
  /\ IsReplyTo(4, lastOp.id)

\* C2: every transition leaves messages unchanged, appends one message to
\* it keeping the previous sequence as a prefix, or empties it; only
\* clearMessages empties a non-empty sequence.
C2_Step ==
  \/ messages' = messages
  \/ /\ Len(messages') = Len(messages) + 1
     /\ SubSeq(messages', 1, Len(messages)) = messages
  \/ /\ messages' = <<>>
     /\ lastOp'.op = "clearMessages"

C2_AppendOrReset == [][C2_Step]_vars

\* A reply appended to a sequence that clearMessages had emptied.
C2_Witness ==
  /\ lastOp.op = "success"
  /\ Len(calls) = 2
  /\ Len(messages) = 1
  /\ messages[1].role = "assistant"

\* C3: isLoading is true exactly when some addMessage call has not yet
\* been resolved.
C3_LoadingIffPending == isLoading <=> (Pending # {})

\* C4 as stated: error is non-null only right after a failed resolution,
\* so every other step (success, addMessage, clearMessages, setError)
\* leaves it null.
C4_ErrorOnlyAfterFailure == (error # Null) => lastOp.op = "failure"

\* C4 amended: error is null right after addMessage starts and right after
\* clearMessages; a successful resolution leaves error as it was; setError
\* stores its argument; so error is non-null only if the last step that
\* assigned it was a failed resolution or a setError with a text.
C4_Step ==
  /\ lastOp'.op \in {"addMessage", "clearMessages"} => error' = Null
  /\ lastOp'.op = "success" => error' = error
  /\ lastOp'.op = "setError" => error' \in ErrorArgs
  /\ (error' # Null /\ error' # error) => lastOp'.op \in {"failure", "setError"}

C4_ErrorWriters == [][C4_Step]_vars

C4_Witness ==
  /\ lastOp.op = "success"
  /\ error # Null

\* Every call made so far still has its user message in messages (no
\* clearMessages removed it).
AllUserTurnsPresent ==
  \A id \in 1..Len(calls) : \E k \in 1..Len(messages) : IsUserTurnOf(k, id)

\* C5: with overlapping addMessage calls, each assistant reply directly
\* follows the user message it answers, and replies appear in the order of
\* their submissions.
C5_NoInterleavedAppend ==
  AllUserTurnsPresent =>
    /\ \A k \in 1..Len(messages) :
         messages[k].role = "assistant" => (k > 1 /\ IsUserTurnOf(k - 1, origin[k]))
    /\ \A j, k \in 1..Len(messages) :
         (j < k /\ messages[j].role = "assistant" /\ messages[k].role = "assistant")
           => origin[j] < origin[k]

\* C6: the persona message is never in messages, and the request list of
\* every addMessage call is SYSTEM_MESSAGE followed by messages as it is
\* right after the call's user message was appended.
C6_State ==
  /\ \A k \in 1..Len(messages) : messages[k] # SYSTEM_MESSAGE /\ messages[k].role # "system"
  /\ \A i \in 1..Len(calls) :
       LET sent == calls[i].request.messages IN
         /\ Len(sent) = calls[i].preLen + 2
         /\ sent[1] = SYSTEM_MESSAGE
         /\ sent[Len(sent)] = [role |-> "user", content |-> calls[i].content]
         /\ \A k \in 2..Len(sent) : sent[k].role # "system"

C6_Step ==
  lastOp'.op = "addMessage" =>
    /\ Len(calls') = Len(calls) + 1
    /\ calls'[lastOp'.id].request.messages = <<SYSTEM_MESSAGE>> \o messages'

C6_PersonaOnlyInRequests == []C6_State /\ [][C6_Step]_vars

C6_Witness ==
  /\ Len(calls) = 2
  /\ Len(calls[2].request.messages) = 4
  /\ calls[2].request.messages[3].role = "assistant"

\* An exchange outcome that raises a fault in sendChatMessage or in the try
\* block of addMessage: a rejected fetch, a non-success status, a body that
\* does not parse, a body that parses to null.
RaisesFault(o) ==
  \/ o.kind = "reject"
  \/ o.kind = "response" /\ ~(o.status \in 200..299)
  \/ o.kind = "response" /\ o.body \in {BodyNotJson, BodyJsonNull}

\* C7: a failed exchange leaves messages as it was (the user message of
\* the call stays), sets isLoading to false and error to a non-null text;
\* for a non-success HTTP status the text contains the status code.
C7_Step ==
  (lastOp'.op \in {"success", "failure"} /\ RaisesFault(lastOp'.outcome)) =>
    /\ messages' = messages
    /\ origin' = origin
    /\ isLoading' = FALSE
    /\ error' # Null
    /\ error'.text # <<>>
    /\ (lastOp'.outcome.kind = "response" /\ ~(lastOp'.outcome.status \in 200..299))
         => Contains(error'.text, ToString(lastOp'.outcome.status))

C7_FailureKeepsUserTurn == [][C7_Step]_vars

C7_Witness ==
  /\ lastOp.op = "failure"
  /\ lastOp.outcome.status = 500
  /\ Contains(error.text, "500")
  /\ messages = <<[role |-> "user", content |-> "What are mangroves?"]>>
  /\ ~isLoading

\* C8: the promise returned by addMessage never rejects, whatever the
\* exchange did; a resolution settles it as fulfilled, and a fault raised
\* by the exchange shows only as the text in error.
C8_State == \A i \in 1..Len(calls) : promise[i] \in {"pending", "fulfilled"}

C8_Step ==
  lastOp'.op \in {"success", "failure"} =>
    /\ promise[lastOp'.id] = "pending"
    /\ promise'[lastOp'.id] = "fulfilled"
    /\ RaisesFault(lastOp'.outcome) => (error' # Null /\ messages' = messages)

C8_NoFaultEscapes == []C8_State /\ [][C8_Step]_vars

C8_Witness ==
  /\ lastOp.op = "failure"
  /\ lastOp.outcome.kind = "reject"
  /\ promise[lastOp.id] = "fulfilled"
  /\ error # Null

\* A success-status body that is malformed: it does not parse, or it has no
\* response field.
Malformed(body) ==
  \/ ~JsonParse(body).ok
  \/ JsonParse(body).isNull
  \/ ~("response" \in DOMAIN JsonParse(body).fields)

\* C9: after the resolution of an exchange with a success status and a
\* malformed body, no assistant message was appended and error is set.
C9_MalformedBodyFails ==
  (Resolved /\ lastOp.outcome.kind = "response" /\ lastOp.outcome.status \in 200..299
     /\ Malformed(lastOp.outcome.body)) =>
    /\ error # Null
    /\ ~(messages # <<>> /\ IsReplyTo(Len(messages), lastOp.id))

\* C10: clearMessages empties messages, sets error to null and leaves
\* isLoading, the calls in flight and their promises as they were.
C10_Step ==
  lastOp'.op = "clearMessages" =>
    /\ messages' = <<>>
    /\ error' = Null
    /\ isLoading' = isLoading
    /\ calls' = calls
    /\ promise' = promise

C10_ClearFrame == [][C10_Step]_vars

C10_Witness ==
  /\ lastOp.op = "clearMessages"
  /\ isLoading
  /\ Pending # {}
  /\ messages = <<>>
  /\ error = Null

\* C11: when the user message of a call is gone from messages (clearMessages
\* ran while the call was pending), its resolution is still applied: a
\* success appends the reply to what messages holds, so the reply is there
\* without its user message; a failure sets error; both set isLoading to
\* false.  Directly after clearMessages the reply is the only message.
C11_Step ==
  (lastOp'.op \in {"success", "failure"}
     /\ ~(\E k \in 1..Len(messages) : IsUserTurnOf(k, lastOp'.id))) =>
    /\ isLoading' = FALSE
    /\ lastOp'.op = "success" =>
         /\ Len(messages') = Len(messages) + 1
         /\ SubSeq(messages', 1, Len(messages)) = messages
         /\ messages'[Len(messages')].role = "assistant"
         /\ origin'[Len(messages')] = lastOp'.id
         /\ ~(\E k \in 1..Len(messages') : origin'[k] = lastOp'.id /\ messages'[k].role = "user")
         /\ lastOp.op = "clearMessages" => Len(messages') = 1
    /\ lastOp'.op = "failure" =>
         /\ messages' = messages
         /\ error' # Null

C11_ResolutionAfterClear == [][C11_Step]_vars

C11_Witness ==
  /\ lastOp.op = "success"
  /\ Len(calls) = 1
  /\ Len(messages) = 1
  /\ IsReplyTo(1, 1)
  /\ ~isLoading

\* C12: in the state right after the resolution of any call, isLoading is
\* false, also when other calls are still pending.
C12_ResolvedNotLoading == Resolved => isLoading = FALSE

C12_Witness ==
  /\ lastOp.op = "failure"
  /\ promise = <<"pending", "fulfilled">>
  /\ ~isLoading

\* C13: clearMessages run right after clearMessages changes nothing of the
\* store state (messages empty, error null, isLoading as it was); and
\* clearMessages run right after a successful resolution gives messages
\* empty, isLoading false and error null, whatever came before.
C13_Step ==
  /\ (lastOp.op = "clearMessages" /\ lastOp'.op = "clearMessages") =>
       /\ messages' = messages /\ messages' = <<>>
       /\ error' = error /\ error' = Null
       /\ isLoading' = isLoading
  /\ (lastOp.op = "success" /\ lastOp'.op = "clearMessages") =>
       /\ messages' = <<>>
       /\ isLoading' = FALSE
       /\ error' = Null

C13_ClearIdempotent == [][C13_Step]_vars

\* clearMessages after two successful turns, the second sent with the first
\* exchange as its history.
C13_Witness ==
  /\ lastOp.op = "clearMessages"
  /\ promise = <<"fulfilled", "fulfilled">>
  /\ Len(calls[2].request.messages) = 4
  /\ messages = <<>>
  /\ ~isLoading
  /\ error = Null

\* C14: one request is handed to fetch per addMessage call, at the call;
\* a resolution, failed or not, sends nothing.
C14_State ==
  /\ Len(requests) = Len(calls)
  /\ \A i \in 1..Len(requests) : requests[i].call = i

C14_Step ==
  /\ lastOp'.op = "addMessage" => Len(requests') = Len(requests) + 1
  /\ lastOp'.op # "addMessage" => requests' = requests

C14_OneRequestPerCall == []C14_State /\ [][C14_Step]_vars

C14_Witness ==
  /\ lastOp.op = "failure"
  /\ promise = <<"fulfilled", "fulfilled">>
  /\ Len(requests) = 2

\* C15: nothing but a resolution step, which carries the outcome of the
\* exchange, sets isLoading to false or takes a call out of pending:
\* clearMessages and setError leave both alone, and no step stands for a
\* timeout or a cancellation.
C15_Step ==
  /\ (isLoading /\ ~(lastOp'.op \in {"success", "failure"})) => isLoading'
  /\ \A i \in 1..Len(calls) :
       (promise[i] = "pending" /\ ~(lastOp'.op \in {"success", "failure"} /\ lastOp'.id = i))
         => promise'[i] = "pending"
  /\ lastOp'.op \in {"success", "failure"} => lastOp'.outcome \in Outcomes
  /\ lastOp'.op \in {"clearMessages", "setError"} =>
       (isLoading' = isLoading /\ promise' = promise)

C15_NoTimeoutOrCancel == [][C15_Step]_vars

C15_Witness ==
  /\ lastOp.op = "setError"
  /\ isLoading
  /\ Cardinality(Pending) = 2
  /\ messages = <<>>
  /\ error # Null

\* C16: when every exchange ends, every addMessage call is resolved: its
\* promise leaves pending by one resolution step, which is either the
\* success step (reply appended, isLoading false) or the failure step
\* (error set, isLoading false), and a settled call is never resolved again.
C16_Step ==
  /\ lastOp'.op \in {"success", "failure"} =>
       /\ promise[lastOp'.id] = "pending"
       /\ promise'[lastOp'.id] # "pending"
       /\ isLoading' = FALSE
       /\ lastOp'.op = "success" =>
            (Len(messages') = Len(messages) + 1 /\ messages'[Len(messages')].role = "assistant" /\ error' = error)
       /\ lastOp'.op = "failure" => (messages' = messages /\ error' # Null)
  /\ \A i \in 1..Len(calls) : promise[i] # "pending" => promise'[i] = promise[i]

C16_OneTerminalOutcome ==
  /\ \A id \in 1..MaxCalls :
       (Len(calls) >= id /\ promise[id] = "pending") ~> (Len(calls) >= id /\ promise[id] # "pending")
  /\ [][C16_Step]_vars

C16_Witness ==
  /\ lastOp.op = "success"
  /\ lastOp.id = 1
  /\ Len(calls) = 2
  /\ Pending = {}

\* C17: addMessage takes empty and whitespace-only content like any other:
\* the call is possible, the user message appended carries exactly that
\* content, isLoading becomes true and a request ending with that message
\* is sent.
BlankContents == {c \in AnyContents : Trim(c) = ""}

C17_State ==
  Len(calls) < MaxCalls => \A c \in BlankContents : ENABLED addMessage(c)

C17_Step ==
  (lastOp'.op = "addMessage" /\ calls'[lastOp'.id].content \in BlankContents) =>
    LET c == calls'[lastOp'.id].content IN
      /\ messages' = Append(messages, [role |-> "user", content |-> c])
      /\ isLoading' = TRUE
      /\ Len(requests') = Len(requests) + 1
      /\ requests'[Len(requests')].body.messages = <<SYSTEM_MESSAGE>> \o messages'

C17_NoContentValidation == []C17_State /\ [][C17_Step]_vars

C17_Witness ==
  /\ lastOp.op = "addMessage"
  /\ Len(messages) = 2
  /\ messages[1] = [role |-> "user", content |-> ""]
  /\ messages[2] = [role |-> "user", content |-> "  "]
  /\ isLoading
  /\ Len(requests) = 2

\* C18: setError stores the text or null it is given in error and leaves
\* messages, isLoading and the calls in flight as they were.
C18_Step ==
  \A e \in ErrorArgs :
    setError(e) =>
      /\ error' = e
      /\ messages' = messages
      /\ isLoading' = isLoading
      /\ calls' = calls
      /\ promise' = promise
      /\ requests' = requests

C18_SetErrorFrame == [][C18_Step]_vars

C18_Witness ==
  /\ lastOp.op = "setError"
  /\ error = Null
  /\ isLoading
  /\ Pending = {1}
  /\ Len(messages) = 1

\* C19: with every submission going through handleSend, addMessage is
\* called only when isLoading is false, with a content that is trimmed and
\* not empty; at most one request is in flight, and no user message with
\* empty or whitespace-only content is in messages.
C19_State ==
  /\ Cardinality(Pending) <= 1
  /\ \A k \in 1..Len(messages) : messages[k].role = "user" => Trim(messages[k].content) # ""
  /\ \A i \in 1..Len(calls) : calls[i].content \in {Trim(m) : m \in RawInputs} \ {""}

C19_Step ==
  lastOp'.op = "addMessage" =>
    /\ ~isLoading
    /\ Pending = {}
    /\ Trim(calls'[lastOp'.id].content) = calls'[lastOp'.id].content
    /\ calls'[lastOp'.id].content # ""

C19_InputAreaGuards == []C19_State /\ [][C19_Step]_vars

C19_Witness ==
  /\ lastOp.op = "addMessage"
  /\ Pending = {2}
  /\ Len(messages) = 3
  /\ messages[3] = [role |-> "user", content |-> "What are mangroves?"]

\* C20: in serial use with successful exchanges, messages alternates user,
\* assistant from a user message on; its length is even when isLoading is
\* false, and odd with a user message last when isLoading is true.
C20_Alternation ==
  /\ \A k \in 1..Len(messages) :
       messages[k].role = (IF k % 2 = 1 THEN "user" ELSE "assistant")
  /\ ~isLoading => Len(messages) % 2 = 0
  /\ isLoading => (Len(messages) % 2 = 1 /\ messages[Len(messages)].role = "user")

C20_Witness ==
  /\ lastOp.op = "success"
  /\ Len(messages) = 4
  /\ ~isLoading
====
